---------------------------- MODULE Spec2Model ----------------------------
(***************************************************************************)
(* A model of src/script.js, the course-catalogue page: the CSV loader,    *)
(* the normalizer, the edit distance, the tolerant matcher, the            *)
(* filter/sort composer, the renderer and the event handlers.              *)
(*                                                                         *)
(* A JavaScript string is a sequence of one-character strings, so that     *)
(* <<"a", "b">> stands for "ab" and <<>> for "".                           *)
(***************************************************************************)
EXTENDS Integers, Sequences, FiniteSets, TLC

VARIABLES
    \* ---- the page (module-level state and the DOM elements it reads/writes)
    courses,            \* let courses = []                       (line 13)
    universitySearch,   \* universitySearch.value
    courseAreaSearch,   \* courseAreaSearch.value
    courseSearch,       \* courseSearch.value
    degreeFilter,       \* degreeFilter.value
    sortFilter,         \* sortFilter.value
    courseGrid,         \* the records whose cards courseGrid.innerHTML shows
    resultsCount,       \* resultsCount.textContent
    emptyStateHidden,   \* emptyState.hidden
    filteredCourses,    \* renderCourses' local: the last getFilteredCourses()
    loadState,          \* where loadCourses is: "pending", "loaded", "failed"
    loadAttempts,       \* how many times fetch was called
    written,            \* what line 82 assigned to courses (history)
    universityOptions,  \* the values of the options of #university-options
    courseAreaOptions,  \* the values of the options of #course-area-options
    response,           \* what fetch("data/courses.csv") is going to give
    rafQueue,           \* callbacks handed to requestAnimationFrame
    activeElement,      \* document.activeElement
    \* ---- a call of one of the pure functions
    fn,                 \* the function called ("none" before the call)
    args,               \* its arguments
    ret                 \* what it returned

pageVars == <<courses, universitySearch, courseAreaSearch, courseSearch,
              degreeFilter, sortFilter, courseGrid, resultsCount,
              emptyStateHidden, filteredCourses, loadState, loadAttempts,
              written, universityOptions, courseAreaOptions, response,
              rafQueue, activeElement>>
callVars == <<fn, args, ret>>
vars == <<pageVars, callVars>>

-----------------------------------------------------------------------------
(* Characters and the String methods the script uses *)

LowerLetters == <<"a","b","c","d","e","f","g","h","i","j","k","l","m",
                  "n","o","p","q","r","s","t","u","v","w","x","y","z">>
UpperLetters == <<"A","B","C","D","E","F","G","H","I","J","K","L","M",
                  "N","O","P","Q","R","S","T","U","V","W","X","Y","Z">>
Digits == {"0","1","2","3","4","5","6","7","8","9"}
Whitespace == {" ", "\t", "\n", "\r"}
LowerSet == {LowerLetters[i] : i \in 1..Len(LowerLetters)}
UpperSet == {UpperLetters[i] : i \in 1..Len(UpperLetters)}

Min2(a, b) == IF a <= b THEN a ELSE b
Max2(a, b) == IF a >= b THEN a ELSE b
SetMin(S) == CHOOSE x \in S : \A y \in S : x <= y
SetMax(S) == CHOOSE x \in S : \A y \in S : x >= y

LetterIndex(c) == CHOOSE i \in 1..Len(UpperLetters) : UpperLetters[i] = c

toLowerChar(c) == IF c \in UpperSet THEN LowerLetters[LetterIndex(c)] ELSE c

\* String.prototype.toLowerCase
toLowerCase(s) == [i \in 1..Len(s) |-> toLowerChar(s[i])]

\* String.prototype.trim
trim(s) ==
    LET kept == {i \in 1..Len(s) : s[i] \notin Whitespace}
    IN  IF kept = {} THEN <<>> ELSE SubSeq(s, SetMin(kept), SetMax(kept))

\* String.prototype.includes
includes(s, t) ==
    \E i \in 1..(Len(s) - Len(t) + 1) : SubSeq(s, i, i + Len(t) - 1) = t

\* String.prototype.split(/\s+/): the pieces between maximal runs of
\* whitespace; a leading or trailing run leaves an empty piece, and the
\* empty string splits into one empty piece.
RECURSIVE splitFrom(_, _, _, _)
splitFrom(s, i, cur, out) ==
    IF i > Len(s) THEN Append(out, cur)
    ELSE IF s[i] \in Whitespace
         THEN IF i > 1 /\ s[i-1] \in Whitespace
              THEN splitFrom(s, i + 1, cur, out)
              ELSE splitFrom(s, i + 1, <<>>, Append(out, cur))
         ELSE splitFrom(s, i + 1, Append(cur, s[i]), out)

splitWhitespace(s) == splitFrom(s, 1, <<>>, <<>>)

-----------------------------------------------------------------------------
(* normalizeText, getEditDistance, matchesWithTolerance *)

IsKeptByNormalize(c) == c \in LowerSet \/ c \in Digits \/ c \in Whitespace

\* value.toLowerCase().replace(/[^a-z0-9\s]/g, "").trim()
normalizeText(value) == trim(SelectSeq(toLowerCase(value), IsKeptByNormalize))

\* A slip in line 140: every pair of characters costs an edit.
costAlwaysOne(source, comparison, i, j) == 1

\* const cost = source[i - 1] === comparison[j - 1] ? 0 : 1
cost(source, comparison, i, j) == IF source[i] = comparison[j] THEN 0 ELSE 1

\* Row i of the table (lines 139-146): `above` is row i-1 and `row` holds
\* the cells of row i filled so far, matrix[i][0] first.
RECURSIVE fillRow(_, _, _, _, _)
fillRow(source, comparison, i, above, row) ==
    LET j == Len(row)
    IN  IF j > Len(comparison) THEN row
        ELSE LET cell == Min2(Min2(above[j+1] + 1, row[j] + 1),
                              above[j] + cost(source, comparison, i, j))
             IN  fillRow(source, comparison, i, above, Append(row, cell))

\* The rows of the table (lines 138-147): `matrix` holds rows 0..i-1,
\* each complete, and row i is filled next.
RECURSIVE fillRows(_, _, _)
fillRows(source, comparison, matrix) ==
    LET i == Len(matrix)
    IN  IF i > Len(source) THEN matrix
        ELSE fillRows(source, comparison,
                      Append(matrix,
                             fillRow(source, comparison, i, matrix[i], <<i>>)))

\* The table of lines 126-147: row 0 is 0..comparison.length (lines
\* 134-136) and column 0 of row i is i (lines 130-132).
editMatrix(source, comparison) ==
    fillRows(source, comparison,
             << [k \in 1..(Len(comparison) + 1) |-> k - 1] >>)

getEditDistance(value, target) ==
    LET source == normalizeText(value)
        comparison == normalizeText(target)
    IN  IF source = <<>> \/ comparison = <<>>
        THEN Max2(Len(source), Len(comparison))
        ELSE editMatrix(source, comparison)[Len(source) + 1][Len(comparison) + 1]

MinTolerance == 2

\* Math.max(2, Math.floor(normalizedQuery.length * 0.2))
maxDistanceFor(normalizedQuery) ==
    Max2(MinTolerance, (Len(normalizedQuery) * 2) \div 10)

\* A slip in lines 168-171: only the whole text is compared, not its words.
matchesWholeTextOnly(query, text) ==
    IF query = <<>> THEN TRUE
    ELSE LET normalizedQuery == normalizeText(query)
             normalizedText == normalizeText(text)
         IN  \/ includes(normalizedText, normalizedQuery)
             \/ getEditDistance(normalizedQuery, normalizedText)
                    <= maxDistanceFor(normalizedQuery)

matchesWithTolerance(query, text) ==
    IF query = <<>> THEN TRUE
    ELSE LET normalizedQuery == normalizeText(query)
             normalizedText == normalizeText(text)
         IN  IF includes(normalizedText, normalizedQuery) THEN TRUE
             ELSE LET words == splitWhitespace(normalizedText)
                      maxDistance == maxDistanceFor(normalizedQuery)
                  IN  \/ getEditDistance(normalizedQuery, normalizedText)
                             <= maxDistance
                      \/ \E k \in 1..Len(words) :
                             getEditDistance(normalizedQuery, words[k])
                                 <= maxDistance

-----------------------------------------------------------------------------
(* parseCSVLine, parseCSV *)

Quote == "\""
Comma == ","
NoChar == "undefined"                   \* line[i] past the end of the line
Undefined == <<"undefined">>            \* the value undefined, as a field

\* One turn of the loop of lines 21-43: st holds i (from 1), current,
\* inQuotes and values, and the turn ends with i += 1.
lineStep(line, st) ==
    LET char == line[st.i]
        nextChar == IF st.i + 1 <= Len(line) THEN line[st.i + 1] ELSE NoChar
    IN  IF char = Quote /\ nextChar = Quote
        THEN [st EXCEPT !.current = Append(@, Quote), !.i = @ + 2]
        ELSE IF char = Quote
        THEN [st EXCEPT !.inQuotes = ~@, !.i = @ + 1]
        ELSE IF char = Comma /\ ~st.inQuotes
        THEN [st EXCEPT !.values = Append(@, trim(st.current)),
                        !.current = <<>>, !.i = @ + 1]
        ELSE [st EXCEPT !.current = Append(@, char), !.i = @ + 1]

\* The loop of lines 21-43 from the state st on, for at most `turns` turns:
\* the first half of the turns, then the rest.
RECURSIVE lineLoop(_, _, _)
lineLoop(line, st, turns) ==
    IF st.i > Len(line) THEN st
    ELSE IF turns <= 1 THEN lineStep(line, st)
    ELSE lineLoop(line, lineLoop(line, st, turns \div 2),
                  turns - turns \div 2)

\* Lines 17-19, the loop (no more turns than the line has characters), then
\* lines 45-46.
parseCSVLine(line) ==
    LET start == [i |-> 1, current |-> <<>>, inQuotes |-> FALSE,
                  values |-> <<>>]
        end == lineLoop(line, start, Len(line))
    IN  Append(end.values, trim(end.current))

\* String.prototype.split(/\r?\n/): the pieces between the line feeds, a
\* carriage return right before a line feed being part of the separator.
splitLines(s) ==
    LET feeds == {i \in 1..Len(s) : s[i] = "\n"}
        n == Cardinality(feeds)
        feed(k) == IF k = 0 THEN 0
                   ELSE IF k > n THEN Len(s) + 1
                   ELSE CHOOSE i \in feeds :
                            Cardinality({j \in feeds : j < i}) = k - 1
        piece(k) ==
            LET from == feed(k - 1) + 1
                to == feed(k) - 1
            IN  IF k <= n /\ to >= from /\ s[to] = "\r"
                THEN SubSeq(s, from, to - 1)
                ELSE SubSeq(s, from, to)
    IN  [k \in 1..(n + 1) |-> piece(k)]

CourseNameHeader == <<"C","o","u","r","s","e"," ","N","a","m","e">>
UniversityHeader == <<"U","n","i","v","e","r","s","i","t","y">>
UniversityTypeHeader ==
    <<"U","n","i","v","e","r","s","i","t","y"," ","T","y","p","e">>
DegreeTypeHeader == <<"D","e","g","r","e","e"," ","T","y","p","e">>
DurationHeader == <<"D","u","r","a","t","i","o","n">>
LanguageHeader == <<"L","a","n","g","u","a","g","e">>
CourseCodeHeader == <<"C","o","u","r","s","e"," ","C","o","d","e">>
CourseAreaHeader == <<"C","o","u","r","s","e"," ","A","r","e","a">>
WebsiteHeader == <<"W","e","b","s","i","t","e">>
YearsSuffix == <<" ","y","e","a","r","s">>

\* row[header] after the forEach of lines 59-61: the value stored under the
\* last column of that name (values[index] ?? ""), undefined without one.
rowLookup(headers, values, header) ==
    LET at == {index \in 1..Len(headers) : headers[index] = header}
    IN  IF at = {} THEN Undefined
        ELSE IF SetMax(at) <= Len(values) THEN values[SetMax(at)] ELSE <<>>

\* `${value} years`: undefined is spelled out by the template literal.
yearsTemplate(value) ==
    (IF value = Undefined
     THEN <<"u","n","d","e","f","i","n","e","d">> ELSE value) \o YearsSuffix

\* The record of lines 63-73 for one data line.
courseOfLine(headers, line) ==
    LET values == parseCSVLine(line)
        row(header) == rowLookup(headers, values, header)
    IN  [courseName |-> row(CourseNameHeader),
         universityName |-> row(UniversityHeader),
         universityType |-> row(UniversityTypeHeader),
         degreeType |-> row(DegreeTypeHeader),
         duration |-> yearsTemplate(row(DurationHeader)),
         language |-> row(LanguageHeader),
         courseCode |-> row(CourseCodeHeader),
         courseArea |-> row(CourseAreaHeader),
         website |-> row(WebsiteHeader)]

parseCSV(csvText) ==
    LET rows == splitLines(trim(csvText))
        headerLine == Head(rows)
        dataLines == Tail(rows)
        headers == parseCSVLine(headerLine)
    IN  [k \in 1..Len(dataLines) |-> courseOfLine(headers, dataLines[k])]

-----------------------------------------------------------------------------
(* String order: the default of Array.prototype.sort (UTF-16 code units)   *)
(* and String.prototype.localeCompare (the collation of the locale).       *)

DigitChars == <<"0","1","2","3","4","5","6","7","8","9">>
IndexIn(seq, c) == CHOOSE i \in 1..Len(seq) : seq[i] = c

\* The UTF-16 code unit of the characters the model uses.
CodeUnit(c) ==
    IF c \in UpperSet THEN 64 + IndexIn(UpperLetters, c)
    ELSE IF c \in LowerSet THEN 96 + IndexIn(LowerLetters, c)
    ELSE IF c \in Digits THEN 47 + IndexIn(DigitChars, c)
    ELSE IF c = " " THEN 32
    ELSE IF c = "\t" THEN 9
    ELSE IF c = "\n" THEN 10
    ELSE IF c = "\r" THEN 13
    ELSE IF c = Quote THEN 34
    ELSE IF c = Comma THEN 44
    ELSE 45

\* -1, 0 or 1 as the sequence of numbers ka comes before, with or after kb:
\* by the first place where they differ, a proper prefix coming first.
compareKeys(ka, kb) ==
    LET differ == {i \in 1..Min2(Len(ka), Len(kb)) : ka[i] # kb[i]}
    IN  IF differ = {}
        THEN (IF Len(ka) < Len(kb) THEN -1
              ELSE IF Len(ka) > Len(kb) THEN 1 ELSE 0)
        ELSE IF ka[SetMin(differ)] < kb[SetMin(differ)] THEN -1 ELSE 1

\* The comparison of two strings by code units (a < b, a === b, a > b).
compareCodeUnits(a, b) ==
    compareKeys([i \in 1..Len(a) |-> CodeUnit(a[i])],
                [i \in 1..Len(b) |-> CodeUnit(b[i])])

\* The collation's first level: blanks, then digits, then the letters in
\* alphabetical order whatever their case. (The names of the model hold
\* letters, digits and blanks only.)
primaryWeight(c) ==
    IF toLowerChar(c) \in LowerSet
    THEN 20 + IndexIn(LowerLetters, toLowerChar(c))
    ELSE IF c \in Digits THEN 9 + IndexIn(DigitChars, c)
    ELSE 1

\* The collation's case level: lower case before upper case.
caseWeight(c) == IF c \in UpperSet THEN 1 ELSE 0

\* a.localeCompare(b): the first level decides over the whole strings, and
\* the case level only between strings the first level holds equal.
localeCompare(a, b) ==
    LET primary == compareKeys([i \in 1..Len(a) |-> primaryWeight(a[i])],
                               [i \in 1..Len(b) |-> primaryWeight(b[i])])
    IN  IF primary # 0 THEN primary
        ELSE compareKeys([i \in 1..Len(a) |-> caseWeight(a[i])],
                         [i \in 1..Len(b) |-> caseWeight(b[i])])

-----------------------------------------------------------------------------
(* populate...Options, getFilteredCourses, renderCourses *)

\* The members of a set of strings in the default order of sort, by code units.
SortedByCodeUnits(S) ==
    [p \in 1..Cardinality(S) |->
        CHOOSE x \in S :
            Cardinality({y \in S : compareCodeUnits(y, x) < 0}) = p - 1]

\* Array.from(new Set(data.map(...))).sort(): the distinct names in the
\* default order of sort, by code units.
universityOptionsOf(data) ==
    SortedByCodeUnits({data[k].universityName : k \in 1..Len(data)})

\* The same for the course areas, the empty one dropped (.filter(Boolean)).
courseAreaOptionsOf(data) ==
    SortedByCodeUnits({data[k].courseArea : k \in 1..Len(data)} \ {<<>>})

\* A slip in lines 182-184: the name is not lowered before the search.
keepsCourseCaseSensitive(course, universityQuery, courseAreaQuery, courseQuery, degreeQuery) ==
    /\ (universityQuery # <<>> =>
            includes(course.universityName, universityQuery))
    /\ (courseAreaQuery # <<>> =>
            includes(toLowerCase(course.courseArea), courseAreaQuery))
    /\ matchesWithTolerance(courseQuery, course.courseName)
    /\ (degreeQuery # <<>> => course.degreeType = degreeQuery)

\* The callback of courses.filter, lines 181-196.
keepsCourse(course, universityQuery, courseAreaQuery, courseQuery, degreeQuery) ==
    LET matchesUniversity ==
            IF universityQuery # <<>>
            THEN includes(toLowerCase(course.universityName), universityQuery)
            ELSE TRUE
        matchesCourseArea ==
            IF courseAreaQuery # <<>>
            THEN includes(toLowerCase(course.courseArea), courseAreaQuery)
            ELSE TRUE
        matchesCourse == matchesWithTolerance(courseQuery, course.courseName)
        matchesDegree ==
            IF degreeQuery # <<>> THEN course.degreeType = degreeQuery
            ELSE TRUE
    IN  matchesUniversity /\ matchesCourseArea /\ matchesCourse
            /\ matchesDegree

\* A slip in lines 200-202: the operands the other way round.
compareUniversityReversed(a, b) ==
    localeCompare(b.universityName, a.universityName)

\* (a, b) => a.universityName.localeCompare(b.universityName)
compareUniversity(a, b) == localeCompare(a.universityName, b.universityName)

\* (a, b) => a.degreeType.localeCompare(b.degreeType)
compareDegree(a, b) == localeCompare(a.degreeType, b.degreeType)

\* The comparator that getFilteredCourses hands to sort for a sort value.
compareFor(sortValue, a, b) ==
    IF sortValue = "university" THEN compareUniversity(a, b)
    ELSE compareDegree(a, b)

\* Array.prototype.sort(compare), which is stable: the records taken in
\* turn from index k on, each put into `sorted` behind those that do not
\* compare greater.
RECURSIVE sortFrom(_, _, _, _)
sortFrom(seq, k, sortValue, sorted) ==
    LET at == Cardinality({j \in 1..Len(sorted) :
                              compareFor(sortValue, sorted[j], seq[k]) <= 0})
    IN  IF k > Len(seq) THEN sorted
        ELSE sortFrom(seq, k + 1, sortValue,
                      SubSeq(sorted, 1, at) \o <<seq[k]>>
                          \o SubSeq(sorted, at + 1, Len(sorted)))

sortCourses(seq, sortValue) == sortFrom(seq, 1, sortValue, <<>>)

\* getFilteredCourses over the collection `data`, the values of the five
\* controls being university, courseArea, course, degree and sort.
getFilteredCourses(data, university, courseArea, course, degree, sort) ==
    LET universityQuery == toLowerCase(trim(university))
        courseAreaQuery == toLowerCase(trim(courseArea))
        courseQuery == toLowerCase(trim(course))
        degreeQuery == degree
        keeps(c) == keepsCourse(c, universityQuery, courseAreaQuery,
                                courseQuery, degreeQuery)
        filtered == SelectSeq(data, keeps)
        sortValue == sort
    IN  IF sortValue = "university" THEN sortCourses(filtered, "university")
        ELSE IF sortValue = "degree" THEN sortCourses(filtered, "degree")
        ELSE filtered

DisplayCap == 10

\* Lines 216-221.
isInitialState(university, courseArea, course, degree, sort) ==
    /\ trim(university) = <<>>
    /\ trim(courseArea) = <<>>
    /\ trim(course) = <<>>
    /\ degree = <<>>
    /\ sort = ""

\* filteredCourses.slice(0, 10)
firstTen(seq) == SubSeq(seq, 1, Min2(DisplayCap, Len(seq)))

\* A slip in line 256: the cards are counted, not the filtered records.
countOfVisible(filtered, visible) == Len(visible)

\* The number in `${filteredCourses.length} course(s) found`.
countReported(filtered, visible) == Len(filtered)

\* visibleCourses, lines 223-225.
visibleCoursesOf(filtered, initialState) ==
    IF initialState THEN firstTen(filtered) ELSE filtered

-----------------------------------------------------------------------------
(* Calls of the pure functions: the arguments are drawn at the start, and  *)
(* one action per function applies it and records what it returned.        *)

MaxQueryLen == 3
MaxTextLen == 5
MaxRawLen == 2

StringsUpTo(A, n) == UNION {[1..k -> A] : k \in 0..n}

Repeat(c, n) == [i \in 1..n |-> c]

Enginering == <<"e","n","g","i","n","e","r","i","n","g">>
Engineering == <<"E","n","g","i","n","e","e","r","i","n","g">>
Xyz123 == <<"x","y","z","1","2","3">>
ComputerScience ==
    <<"C","o","m","p","u","t","e","r"," ","S","c","i","e","n","c","e">>
Kitten == <<"k","i","t","t","e","n">>
Sitting == <<"s","i","t","t","i","n","g">>
LongQuery == Repeat("a", 15)
LongNear == Repeat("a", 12) \o Repeat("b", 3)
LongFar == Repeat("a", 11) \o Repeat("b", 4)

ExampleInputs ==
    { [query |-> Enginering, text |-> Engineering],
      [query |-> Xyz123, text |-> ComputerScience],
      [query |-> Kitten, text |-> Sitting],
      [query |-> Sitting, text |-> Kitten],
      [query |-> LongQuery, text |-> LongNear],
      [query |-> LongQuery, text |-> LongFar] }

\* Short queries against texts of several words, and raw (not normalized)
\* queries and texts with upper case, punctuation and blanks.
MatchInputs ==
    [query : StringsUpTo({"a", "b"}, MaxQueryLen),
     text : StringsUpTo({"a", "b", " "}, MaxTextLen)]
    \cup [query : StringsUpTo({"a", "B", "-", " "}, MaxRawLen),
          text : StringsUpTo({"a", "B", "-", " "}, MaxRawLen)]
    \cup ExampleInputs

MaxFieldLen == 2
MaxFields == 2
MaxDataLines == 2

\* The pieces joined by sep, as Array.prototype.join does.
RECURSIVE Join(_, _)
Join(pieces, sep) ==
    IF pieces = <<>> THEN <<>>
    ELSE IF Len(pieces) = 1 THEN pieces[1]
    ELSE pieces[1] \o sep \o Join(Tail(pieces), sep)

\* A field written as a quoted CSV field: every quote inside doubled, the
\* whole wrapped in quotes.
RECURSIVE DoubleQuotes(_)
DoubleQuotes(f) ==
    IF f = <<>> THEN <<>>
    ELSE (IF Head(f) = Quote THEN <<Quote, Quote>> ELSE <<Head(f)>>)
         \o DoubleQuotes(Tail(f))

QuotedField(f) == <<Quote>> \o DoubleQuotes(f) \o <<Quote>>

WriteQuotedLine(fields) ==
    Join([k \in 1..Len(fields) |-> QuotedField(fields[k])], <<Comma>>)

BioTechPlus ==
    <<"B","i","o",","," ","T","e","c","h"," ",Quote,"P","l","u","s",Quote>>

FieldTexts == StringsUpTo({"a", Comma, Quote}, MaxFieldLen) \cup {BioTechPlus}

LineInputs ==
    {[fields |-> fs, line |-> WriteQuotedLine(fs)] :
        fs \in UNION {[1..n -> FieldTexts] : n \in 1..MaxFields}}

ExpectedHeaders ==
    <<CourseNameHeader, UniversityHeader, UniversityTypeHeader,
      DegreeTypeHeader, DurationHeader, LanguageHeader, CourseCodeHeader,
      CourseAreaHeader, WebsiteHeader>>

\* One cell per column of a well-formed data line.
SampleValues ==
    <<<<"c">>, <<"u">>, <<"t">>, <<"d">>, <<"3">>, <<"l">>, <<"k">>,
      <<"a">>, <<"w">>>>

WithoutColumn(k) ==
    SubSeq(ExpectedHeaders, 1, k - 1)
        \o SubSeq(ExpectedHeaders, k + 1, Len(ExpectedHeaders))

\* The header with all nine columns, or with one of them left out.
HeaderChoices ==
    {ExpectedHeaders} \cup {WithoutColumn(k) : k \in 1..Len(ExpectedHeaders)}

\* A data line holds the first n sample cells, 1 <= n <= 9.
DataLineChoices ==
    {SubSeq(SampleValues, 1, n) : n \in 1..Len(SampleValues)}

WriteCSV(headers, lines, newline) ==
    Join(<<Join(headers, <<Comma>>)>>
             \o [k \in 1..Len(lines) |-> Join(lines[k], <<Comma>>)],
         newline)

CSVInputs ==
    {[headers |-> h, lines |-> ls, csvText |-> WriteCSV(h, ls, nl)] :
        h \in HeaderChoices,
        ls \in UNION {[1..n -> DataLineChoices] : n \in 0..MaxDataLines},
        nl \in {<<"\n">>, <<"\r", "\n">>}}

CallParseCSVLine ==
    /\ fn = "none"
    /\ fn' = "parseCSVLine"
    /\ ret' = parseCSVLine(args.line)
    /\ UNCHANGED <<args, pageVars>>

CallParseCSV ==
    /\ fn = "none"
    /\ fn' = "parseCSV"
    /\ ret' = parseCSV(args.csvText)
    /\ UNCHANGED <<args, pageVars>>

CallGetEditDistance ==
    /\ fn = "none"
    /\ fn' = "getEditDistance"
    /\ ret' = getEditDistance(args.query, args.text)
    /\ UNCHANGED <<args, pageVars>>

CallMatchesWithTolerance ==
    /\ fn = "none"
    /\ fn' = "matchesWithTolerance"
    /\ ret' = matchesWithTolerance(args.query, args.text)
    /\ UNCHANGED <<args, pageVars>>

-----------------------------------------------------------------------------
(* The page as the script finds it: nothing loaded, every control empty.   *)

NoCount == <<"static", 0>>              \* the text the page ships with
FoundCount(n) == <<"found", n>>         \* `${n} course(s) found`
UnableToLoad == <<"unable", 0>>         \* "Unable to load courses."

\* fetch and response.text() give the parsed records, or reject.
FetchOf(data) == [ok |-> TRUE, data |-> data]
FetchFailure == [ok |-> FALSE, data |-> <<>>]

PageStart ==
    /\ courses = <<>>
    /\ universitySearch = <<>>
    /\ courseAreaSearch = <<>>
    /\ courseSearch = <<>>
    /\ degreeFilter = <<>>
    /\ sortFilter = ""
    /\ courseGrid = <<>>
    /\ resultsCount = NoCount
    /\ emptyStateHidden = TRUE
    /\ filteredCourses = <<>>
    /\ loadState = "pending"
    /\ loadAttempts = 1
    /\ written = <<>>
    /\ universityOptions = <<>>
    /\ courseAreaOptions = <<>>
    /\ rafQueue = <<>>
    /\ activeElement = "other"

InitMatch ==
    /\ PageStart
    /\ response = FetchFailure
    /\ fn = "none"
    /\ args \in MatchInputs
    /\ ret = "none"

MaxCourses == 2
MaxOver == 1
MaxPending == 1

Course(university, area, name, degree, code) ==
    [courseName |-> name,
     universityName |-> university,
     universityType |-> <<"P","u","b","l","i","c">>,
     degreeType |-> degree,
     duration |-> <<"3">> \o YearsSuffix,
     language |-> <<"E","N">>,
     courseCode |-> code,
     courseArea |-> area,
     website |-> <<>>]

\* Records that differ in every field the composer reads: two of the same
\* university, names in both cases, a course name of two words.
Pool ==
    << Course(<<"a">>, <<"x">>, <<"a","b","c","d">>, <<"M">>, <<"1">>),
       Course(<<"B">>, <<"x","y">>, <<"w","x","y","z">>, <<"B">>, <<"2">>),
       Course(<<"a">>, <<"Y">>, <<"u","v"," ","a","b","c">>, <<"M">>, <<"3">>) >>

\* n records, the pool over and over.
Catalogue(n) == [k \in 1..n |-> Pool[((k - 1) % Len(Pool)) + 1]]

PoolSet == {Pool[k] : k \in 1..Len(Pool)}

\* Every collection of up to MaxCourses records of the pool, in every
\* order, and collections around the display cap of ten.
Datasets ==
    UNION {[1..n -> PoolSet] : n \in 0..MaxCourses}
    \cup {Catalogue(n) : n \in (DisplayCap - 1)..(DisplayCap + MaxOver)}

\* The collections the pointer events are explored on.
FewDatasets ==
    {<<>>, Pool, <<Pool[2], Pool[3], Pool[1]>>, Catalogue(DisplayCap + 1)}

Controls == {"university", "courseArea", "course", "degree", "sort"}

\* What the user may put into each control.
ValuesOf(control) ==
    CASE control = "university" -> {<<>>, <<" ">>, <<"b", " ">>}
      [] control = "courseArea" -> {<<>>, <<"y">>}
      [] control = "course" -> {<<>>, <<"a","b","c","f">>, <<"-">>}
      [] control = "degree" -> {<<>>, <<"M">>}
      [] control = "sort" -> {"", "university", "degree"}

valueOf(control) ==
    CASE control = "university" -> universitySearch
      [] control = "courseArea" -> courseAreaSearch
      [] control = "course" -> courseSearch
      [] control = "degree" -> degreeFilter
      [] control = "sort" -> sortFilter

\* renderCourses, lines 215-258, reading the new values of the controls (the
\* handler runs once the value it is told of has changed): its locals
\* filteredCourses and visibleCourses, then the cards, the count text and
\* emptyState.hidden.
renderCourses ==
    /\ filteredCourses' =
           getFilteredCourses(courses', universitySearch', courseAreaSearch',
                              courseSearch', degreeFilter', sortFilter')
    /\ courseGrid' =
           visibleCoursesOf(filteredCourses',
                            isInitialState(universitySearch',
                                           courseAreaSearch', courseSearch',
                                           degreeFilter', sortFilter'))
    /\ resultsCount' = FoundCount(countReported(filteredCourses', courseGrid'))
    /\ emptyStateHidden' = (Len(filteredCourses') # 0)

loadVars == <<loadState, loadAttempts, written, universityOptions,
              courseAreaOptions, response>>
controlVars == <<universitySearch, courseAreaSearch, courseSearch,
                 degreeFilter, sortFilter>>
displayVars == <<filteredCourses, courseGrid, resultsCount,
                 emptyStateHidden>>

\* loadCourses after the two awaits, lines 82-85.
LoadSucceeds ==
    /\ loadState = "pending"
    /\ response.ok
    /\ courses' = response.data
    /\ written' = response.data
    /\ universityOptions' = universityOptionsOf(response.data)
    /\ courseAreaOptions' = courseAreaOptionsOf(response.data)
    /\ loadState' = "loaded"
    /\ UNCHANGED <<controlVars, loadAttempts, response, rafQueue,
                   activeElement, callVars>>
    /\ renderCourses

\* loadCourses when fetch or response.text() rejects, lines 86-88.
LoadFails ==
    /\ loadState = "pending"
    /\ ~response.ok
    /\ resultsCount' = UnableToLoad
    /\ loadState' = "failed"
    /\ UNCHANGED <<courses, controlVars, filteredCourses, courseGrid,
                   emptyStateHidden, loadAttempts, written,
                   universityOptions, courseAreaOptions, response, rafQueue,
                   activeElement, callVars>>

\* The user gives a control a new value, and its input event calls
\* renderCourses (line 276).
Input(control) ==
    \E value \in ValuesOf(control) \ {valueOf(control)} :
        /\ universitySearch' =
               IF control = "university" THEN value ELSE universitySearch
        /\ courseAreaSearch' =
               IF control = "courseArea" THEN value ELSE courseAreaSearch
        /\ courseSearch' = IF control = "course" THEN value ELSE courseSearch
        /\ degreeFilter' = IF control = "degree" THEN value ELSE degreeFilter
        /\ sortFilter' = IF control = "sort" THEN value ELSE sortFilter
        /\ UNCHANGED <<courses, loadVars, rafQueue, activeElement, callVars>>
        /\ renderCourses

\* The change event of a control (with the input event of a select, on
\* Enter or on leaving a text input): renderCourses, line 277.
Change ==
    /\ UNCHANGED <<courses, controlVars, loadVars, rafQueue, activeElement,
                   callVars>>
    /\ renderCourses

\* A click on the reset button: resetFilters, lines 260-267.
Reset ==
    /\ universitySearch' = <<>>
    /\ courseAreaSearch' = <<>>
    /\ courseSearch' = <<>>
    /\ degreeFilter' = <<>>
    /\ sortFilter' = ""
    /\ UNCHANGED <<courses, loadVars, rafQueue, activeElement, callVars>>
    /\ renderCourses

PointerInputs == {"university", "courseArea"}

\* pointerdown on the university or the course-area input, lines 280-297:
\* nothing when the input is empty; else the value is cleared and a callback
\* that remembers it is queued for the next animation frame.  No render.
PointerDown(input) ==
    /\ valueOf(input) # <<>>
    /\ Len(rafQueue) < MaxPending
    /\ rafQueue' = Append(rafQueue, [input |-> input,
                                     originalValue |-> valueOf(input)])
    /\ universitySearch' =
           IF input = "university" THEN <<>> ELSE universitySearch
    /\ courseAreaSearch' =
           IF input = "courseArea" THEN <<>> ELSE courseAreaSearch
    /\ UNCHANGED <<courses, courseSearch, degreeFilter, sortFilter,
                   displayVars, loadVars, activeElement, callVars>>

\* The callbacks of lines 291-295 run in the order queued, on the values of
\* the two inputs: each puts its value back only into the focused, still
\* empty input.
RECURSIVE runCallbacks(_, _)
runCallbacks(queue, values) ==
    IF queue = <<>> THEN values
    ELSE LET callback == Head(queue)
             after ==
                 IF /\ activeElement = callback.input
                    /\ values[callback.input] = <<>>
                 THEN [values EXCEPT
                          ![callback.input] = callback.originalValue]
                 ELSE values
         IN  runCallbacks(Tail(queue), after)

\* The next animation frame: every queued callback runs.
AnimationFrame ==
    /\ rafQueue # <<>>
    /\ LET values == runCallbacks(rafQueue,
                                  [university |-> universitySearch,
                                   courseArea |-> courseAreaSearch])
       IN  /\ universitySearch' = values.university
           /\ courseAreaSearch' = values.courseArea
    /\ rafQueue' = <<>>
    /\ UNCHANGED <<courses, courseSearch, degreeFilter, sortFilter,
                   displayVars, loadVars, activeElement, callVars>>

Elements == PointerInputs \cup {"other"}

\* The focus moves: document.activeElement, read in line 292.
Focus(element) ==
    /\ element # activeElement
    /\ activeElement' = element
    /\ UNCHANGED <<courses, controlVars, displayVars, loadVars, rafQueue,
                   callVars>>

InitEdits ==
    /\ PageStart
    /\ response \in {FetchOf(data) : data \in Datasets} \cup {FetchFailure}
    /\ fn = "none"
    /\ args = <<>>
    /\ ret = "none"

NextEdits ==
    \/ LoadSucceeds
    \/ LoadFails
    \/ \E control \in Controls : Input(control)
    \/ Change
    \/ Reset

SpecEdits == InitEdits /\ [][NextEdits]_vars

Init ==
    /\ PageStart
    /\ response \in {FetchOf(data) : data \in FewDatasets} \cup {FetchFailure}
    /\ fn = "none"
    /\ args = <<>>
    /\ ret = "none"

Next ==
    \/ NextEdits
    \/ \E input \in PointerInputs : PointerDown(input)
    \/ AnimationFrame
    \/ \E element \in Elements : Focus(element)

Spec == Init /\ [][Next]_vars

InitParseLine ==
    /\ PageStart
    /\ response = FetchFailure
    /\ fn = "none"
    /\ args \in LineInputs
    /\ ret = "none"

SpecParseLine == InitParseLine /\ [][CallParseCSVLine]_vars

InitParseCSV ==
    /\ PageStart
    /\ response = FetchFailure
    /\ fn = "none"
    /\ args \in CSVInputs
    /\ ret = "none"

SpecParseCSV == InitParseCSV /\ [][CallParseCSV]_vars

NextMatch == CallGetEditDistance \/ CallMatchesWithTolerance

SpecMatch == InitMatch /\ [][NextMatch]_vars

-----------------------------------------------------------------------------
(* What the specification says of the distance and of the matcher, written *)
(* without the script's table.                                             *)

MaxStepLen == 3

Min3(a, b, c) == Min2(Min2(a, b), c)

\* The classic edit distance, by its recurrence on what is left of a and b.
ClassicDistance(a, b) ==
    LET lev[i \in 1..(Len(a) + 1), j \in 1..(Len(b) + 1)] ==
            IF i > Len(a) THEN Len(b) - j + 1
            ELSE IF j > Len(b) THEN Len(a) - i + 1
            ELSE IF a[i] = b[j] THEN lev[i + 1, j + 1]
            ELSE 1 + Min3(lev[i + 1, j], lev[i, j + 1], lev[i + 1, j + 1])
    IN  lev[1, 1]

CharsOf(s) == {s[i] : i \in 1..Len(s)}

\* Every string one insertion, deletion or substitution away from s, with
\* characters of A and at most n characters long.
OneEdit(s, A, n) ==
    {SubSeq(s, 1, i - 1) \o SubSeq(s, i + 1, Len(s)) : i \in 1..Len(s)}
    \cup {[s EXCEPT ![i] = c] : i \in 1..Len(s), c \in A}
    \cup IF Len(s) >= n THEN {}
         ELSE {SubSeq(s, 1, i) \o <<c>> \o SubSeq(s, i + 1, Len(s)) :
                   i \in 0..Len(s), c \in A}

\* The least number of single-character edits that turn a into b.
RECURSIVE StepsFrom(_, _, _, _, _)
StepsFrom(S, b, A, n, k) ==
    IF b \in S THEN k
    ELSE StepsFrom(S \cup UNION {OneEdit(s, A, n) : s \in S}, b, A, n, k + 1)

MinEditSteps(a, b) ==
    StepsFrom({a}, b, CharsOf(a) \cup CharsOf(b), Max2(Len(a), Len(b)), 0)

IsNormalized(s) == normalizeText(s) = s

\* t contains q as a substring.
Contains(t, q) ==
    \E i \in 0..Len(t), j \in 0..Len(t) : i <= j /\ SubSeq(t, i + 1, j) = q

\* The whitespace-delimited words of t: its maximal runs without whitespace.
WordsOf(t) ==
    {SubSeq(t, p[1], p[2]) :
        p \in {p \in (1..Len(t)) \X (1..Len(t)) :
                  /\ p[1] <= p[2]
                  /\ \A k \in p[1]..p[2] : t[k] \notin Whitespace
                  /\ (p[1] = 1 \/ t[p[1] - 1] \in Whitespace)
                  /\ (p[2] = Len(t) \/ t[p[2] + 1] \in Whitespace)}}

\* T = max(2, floor(0.2 * length of the normalized query))
Tolerance(q) == Max2(2, Len(q) \div 5)

ToleratedBy(query, text) ==
    LET q == normalizeText(query)
        t == normalizeText(text)
    IN  \/ query = <<>>
        \/ Contains(t, q)
        \/ ClassicDistance(q, t) <= Tolerance(q)
        \/ \E w \in WordsOf(t) : ClassicDistance(q, w) <= Tolerance(q)

\* C3: matchesWithTolerance(query, text) is true exactly when the query is
\* empty, or the normalized text contains the normalized query, or the edit
\* distance from the normalized query to the whole normalized text or to one
\* of its words is at most T = max(2, floor(0.2 * query length)); so
\* "enginering" matches "Engineering", "xyz123" does not match "Computer
\* Science", and a 15-character query tolerates 3 edits but not 4.
TolerantMatchIsAsSpecified ==
    fn = "matchesWithTolerance" =>
        /\ args \notin ExampleInputs =>
               (ret <=> ToleratedBy(args.query, args.text))
        /\ args.query = <<>> => ret
        /\ (args.query = Enginering /\ args.text = Engineering) => ret
        /\ (args.query = Xyz123 /\ args.text = ComputerScience) => ~ret
        /\ (args.query = LongQuery /\ args.text = LongNear) => ret
        /\ (args.query = LongQuery /\ args.text = LongFar) => ~ret

\* A query that is no substring of the text and is too far from the whole
\* text has matched through one of the text's words.
MatchedThroughAWord ==
    /\ fn = "matchesWithTolerance"
    /\ args \notin ExampleInputs
    /\ ret = TRUE
    /\ args.query # <<>>
    /\ ~Contains(normalizeText(args.text), normalizeText(args.query))
    /\ ClassicDistance(normalizeText(args.query), normalizeText(args.text))
           > Tolerance(normalizeText(args.query))

\* C4: a query does not match a text none of whose words shares a character
\* with it, whatever the lengths of the query and of the words.
UnrelatedWordsNeverMatch ==
    ( /\ fn = "matchesWithTolerance"
      /\ normalizeText(args.query) # <<>>
      /\ WordsOf(normalizeText(args.text)) # {}
      /\ \A w \in WordsOf(normalizeText(args.text)) :
             CharsOf(w) \cap CharsOf(normalizeText(args.query)) = {} )
    => ret = FALSE

\* C5: on normalized strings getEditDistance is the classic edit distance:
\* the least number of single-character insertions, deletions and
\* substitutions; the length of the other string when one is empty; 0 from a
\* string to itself; symmetric; and 3 from "kitten" to "sitting".
EditDistanceIsClassic ==
    ( /\ fn = "getEditDistance"
      /\ IsNormalized(args.query)
      /\ IsNormalized(args.text) )
    => /\ args \notin ExampleInputs =>
              ret = ClassicDistance(args.query, args.text)
       /\ (Len(args.query) <= MaxStepLen /\ Len(args.text) <= MaxStepLen) =>
              ret = MinEditSteps(args.query, args.text)
       /\ args.query = <<>> => ret = Len(args.text)
       /\ args.text = <<>> => ret = Len(args.query)
       /\ args.query = args.text => ret = 0
       /\ ret = getEditDistance(args.text, args.query)
       /\ (args.query = Kitten /\ args.text = Sitting) => ret = 3

\* The distance from "kitten" to "sitting" has been computed.
KittenSittingMeasured ==
    /\ fn = "getEditDistance"
    /\ args.query = Kitten
    /\ args.text = Sitting
    /\ ret = 3

-----------------------------------------------------------------------------
(* The CSV loader *)

\* C6: fields written as quoted CSV fields (wrapped in quotes, every quote
\* inside doubled) and joined by commas are parsed back unchanged by
\* parseCSVLine, one value per field written, whatever the field holds:
\* letters, commas, quotes, nothing, or only quotes.
QuotedFieldsRoundTrip ==
    ( /\ fn = "parseCSVLine"
      /\ \A k \in 1..Len(args.fields) : trim(args.fields[k]) = args.fields[k] )
    => /\ Len(ret) = Len(args.fields)
       /\ \A k \in 1..Len(args.fields) : ret[k] = args.fields[k]

RecordFieldAt(course, column) ==
    CASE column = 1 -> course.courseName
      [] column = 2 -> course.universityName
      [] column = 3 -> course.universityType
      [] column = 4 -> course.degreeType
      [] column = 5 -> course.duration
      [] column = 6 -> course.language
      [] column = 7 -> course.courseCode
      [] column = 8 -> course.courseArea
      [] column = 9 -> course.website

\* The data line has no value for the column, or the header has no such
\* column at all.
ColumnMissing(headers, values, column) ==
    \A index \in 1..Len(headers) :
        headers[index] = ExpectedHeaders[column] => index > Len(values)

\* C8: parseCSV yields one record per data line, and every field of a record
\* whose column is missing from the line or from the header is the empty
\* text, duration included.
MissingFieldsAreEmpty ==
    fn = "parseCSV" =>
        /\ Len(ret) = Len(args.lines)
        /\ \A r \in 1..Len(ret), column \in 1..Len(ExpectedHeaders) :
               ( /\ r <= Len(args.lines)
                 /\ ColumnMissing(args.headers, args.lines[r], column) )
               => RecordFieldAt(ret[r], column) = <<>>

-----------------------------------------------------------------------------
(* The composer and the page *)

Loaded == loadState = "loaded"

AllControlsEmpty ==
    /\ trim(universitySearch) = <<>>
    /\ trim(courseAreaSearch) = <<>>
    /\ trim(courseSearch) = <<>>
    /\ degreeFilter = <<>>
    /\ sortFilter = ""

\* name contains the trimmed query, letter case set aside; an empty query
\* is contained in every name.
ContainsIgnoringCase(name, query) ==
    Contains(toLowerCase(name), toLowerCase(trim(query)))

\* The record satisfies the four predicates for the present control values.
Satisfies(course) ==
    /\ ContainsIgnoringCase(course.universityName, universitySearch)
    /\ ContainsIgnoringCase(course.courseArea, courseAreaSearch)
    /\ ToleratedBy(toLowerCase(trim(courseSearch)), course.courseName)
    /\ (degreeFilter # <<>> => course.degreeType = degreeFilter)

\* The loaded records that satisfy the four predicates, in load order.
Satisfying == SelectSeq(courses, Satisfies)

HasDegreeChosen(course) == course.degreeType = degreeFilter

Occurrences(seq, x) == Cardinality({k \in 1..Len(seq) : seq[k] = x})

IsPermutationOf(a, b) ==
    /\ Len(a) = Len(b)
    /\ \A k \in 1..Len(b) : Occurrences(a, b[k]) = Occurrences(b, b[k])

\* C1: once the dataset has loaded, after any control edits and reset
\* clicks: with all five controls empty (text inputs after trimming) the
\* cards are the first min(10, N) loaded records in load order and the count
\* reported is N; with some control non-empty the cards are the whole
\* filtered set and the count is the number of cards.
InitialViewIsCappedCountIsNot ==
    Loaded =>
        IF AllControlsEmpty
        THEN /\ courseGrid = SubSeq(written, 1, Min2(10, Len(written)))
             /\ resultsCount = FoundCount(Len(written))
        ELSE /\ courseGrid =
                    getFilteredCourses(courses, universitySearch,
                                       courseAreaSearch, courseSearch,
                                       degreeFilter, sortFilter)
             /\ resultsCount = FoundCount(Len(courseGrid))

\* More than ten records are loaded, every control is empty, ten cards are
\* shown and the count is the number of records.
TenShownOfMore ==
    /\ Loaded
    /\ AllControlsEmpty
    /\ Len(courses) > 10
    /\ Len(courseGrid) = 10
    /\ resultsCount = FoundCount(Len(courses))

\* C2: with no sort key chosen, getFilteredCourses returns exactly the
\* loaded records that satisfy all four predicates (university and course
\* area contained case-insensitively, course name matched tolerantly, degree
\* type equal; an empty control constrains nothing), in load order, none
\* dropped, repeated or moved; with only a degree type chosen, exactly the
\* records of that degree type.
FilterIsConjunctionInLoadOrder ==
    (Loaded /\ sortFilter = "") =>
        /\ filteredCourses = Satisfying
        /\ ( /\ trim(universitySearch) = <<>>
             /\ trim(courseAreaSearch) = <<>>
             /\ trim(courseSearch) = <<>>
             /\ degreeFilter # <<>> )
           => filteredCourses = SelectSeq(courses, HasDegreeChosen)

\* A university query in lower case has kept a record whose university name
\* is in upper case, and dropped another record.
KeptIgnoringCase ==
    /\ Loaded
    /\ sortFilter = ""
    /\ trim(universitySearch) # <<>>
    /\ filteredCourses # <<>>
    /\ Len(filteredCourses) < Len(courses)
    /\ \A k \in 1..Len(filteredCourses) :
           ~Contains(filteredCourses[k].universityName, trim(universitySearch))

\* C7 as stated: with the sort key university, the result is a permutation
\* of the filtered set, its university names are in non-decreasing
\* lexicographic order (character by character, by character code), and
\* records of equal university name keep their load order.
SortedLexicographically ==
    (Loaded /\ sortFilter = "university") =>
        /\ IsPermutationOf(filteredCourses, Satisfying)
        /\ \A k \in 1..(Len(filteredCourses) - 1) :
               compareCodeUnits(filteredCourses[k].universityName,
                                filteredCourses[k + 1].universityName) <= 0
        /\ \A c \in PoolSet :
               LET sameName(x) == x.universityName = c.universityName
               IN  SelectSeq(filteredCourses, sameName)
                       = SelectSeq(Satisfying, sameName)

\* C7: with the sort key university, the result is a permutation of the
\* filtered set, its university names are in non-decreasing order of
\* localeCompare (the collation order: letters by alphabet whatever their
\* case, lower case before upper case of the same letter), and records of
\* equal university name keep their load order.
SortedByCollation ==
    (Loaded /\ sortFilter = "university") =>
        /\ IsPermutationOf(filteredCourses, Satisfying)
        /\ \A k \in 1..(Len(filteredCourses) - 1) :
               localeCompare(filteredCourses[k].universityName,
                             filteredCourses[k + 1].universityName) <= 0
        /\ \A c \in PoolSet :
               LET sameName(x) == x.universityName = c.universityName
               IN  SelectSeq(filteredCourses, sameName)
                       = SelectSeq(Satisfying, sameName)

\* Sorting by university has moved records, and two different records of
\* one university are in the result.
SortMovedRecords ==
    /\ Loaded
    /\ sortFilter = "university"
    /\ filteredCourses # Satisfying
    /\ \E j, k \in 1..Len(filteredCourses) :
           /\ j < k
           /\ filteredCourses[j] # filteredCourses[k]
           /\ filteredCourses[j].universityName
                  = filteredCourses[k].universityName

\* C9: once the load has failed, whatever input, change and reset events
\* follow, the count text is "Unable to load courses.", the collection is
\* empty and no second load has been attempted.
FailureMessageStays ==
    loadState = "failed" =>
        /\ resultsCount = UnableToLoad
        /\ courses = <<>>
        /\ loadAttempts = 1

\* C10: after loading, once no animation-frame callback is pending, the
\* collection is as it was written, and the cards, the count and the empty
\* state are what a recomputation from the present control values gives.
DisplayIsFreshRecomputation ==
    (Loaded /\ rafQueue = <<>>) =>
        /\ courses = written
        /\ courseGrid =
               visibleCoursesOf(
                   getFilteredCourses(courses, universitySearch,
                                      courseAreaSearch, courseSearch,
                                      degreeFilter, sortFilter),
                   AllControlsEmpty)
        /\ resultsCount =
               FoundCount(Len(getFilteredCourses(courses, universitySearch,
                                                 courseAreaSearch,
                                                 courseSearch, degreeFilter,
                                                 sortFilter)))

=============================================================================
